---- MODULE Spec2Model ----
(***************************************************************************)
(* State-machine model of the journaling client (App component):           *)
(*   - the conversation/streaming exchange driven by sendMessage,          *)
(*   - the paginated entry list (initial load, loadMoreJournal, create,    *)
(*     update, delete, selection),                                         *)
(*   - the entry-summary batch loader (loadEntrySummariesBatch).           *)
(* Asynchronous functions are cut at their await points; everything that   *)
(* runs between two awaits is one atomic action.  React state setters use  *)
(* functional updaters, so they act on the current state; values read from *)
(* a render's closure are carried in the record of the pending call.       *)
(***************************************************************************)
EXTENDS Integers, Sequences, FiniteSets, Bags, TLC

\* ------------------------------------------------------------------ bounds
MaxSends == 2
MaxLines == 2
MaxInflight == 2
MaxCreates == 1
MaxDeletes == 1
TouchRows == 2
MaxTimers == 2
MaxInvocations == 2
MaxUpdates == 2
UpdateListLen == 3
MaxDashFetches == 2
MaxPanelFetches == 3
PanelEntries == 2
MaxUserChanges == 1
NextUserEntries == 3
MaxEditorOps == 3
MaxSessions == 2
MaxTourOpens == 3

\* ------------------------------------------------------- program constants
PAGE_SIZE == 10
batchSize == 3
VisibleCount == 5

\* ------------------------------------------------------------------- state
VARIABLES
  conversationHistory, currentMessage, isLoading, isSending, isStreaming,
  isJournaling, xs, nSent, offTimers, sj, introTimers, bodies, sendLimit,
  journal, journalTotal, journalPage, initialLoaded, selectedEntry,
  server, nextId, loadPc, calls, nCreates, nDeletes, lastMore, moreLens,
  overlapped,
  entrySummaries, entrySummaryLoading, batchLoadingEntries, timers, invs,
  fetchLog,
  dash, panel, user, editor, tour

chatVars == <<conversationHistory, currentMessage, isLoading, isSending,
              isStreaming, isJournaling, xs, nSent, offTimers, sj,
              introTimers, bodies, sendLimit>>
journalVars == <<journal, journalTotal, journalPage, initialLoaded,
                 selectedEntry, server, nextId, loadPc, calls, nCreates,
                 nDeletes, lastMore, moreLens, overlapped>>
summaryVars == <<entrySummaries, entrySummaryLoading, batchLoadingEntries,
                 timers, invs, fetchLog>>
auxVars == <<dash, panel, user, editor, tour>>
vars == <<chatVars, journalVars, summaryVars, auxVars>>

\* ----------------------------------------------------------------- helpers
RECURSIVE Flatten(_)
Flatten(ss) == IF ss = <<>> THEN <<>> ELSE Head(ss) \o Flatten(Tail(ss))

RECURSIVE SeqsUpTo(_, _)
SeqsUpTo(S, n) ==
  IF n = 0 THEN {<<>>}
  ELSE LET shorter == SeqsUpTo(S, n - 1)
       IN  shorter \cup {Append(s, x) : s \in shorter, x \in S}

\* text.trim() is empty: every character is white space
IsBlank(t) == \A i \in 1..Len(t) : t[i] = " "

\* ------------------------------------------------- stream wire and parsing
\* A stream body is a sequence of lines; a line is a sequence of tokens:
\* "P" is the framing marker 'data: ', "{" c.. "}" a JSON object whose
\* content field holds the characters c.., "E" the payload [DONE].
NL == "nl"
ContentChars == {"a", "b"}
ValidLines == {<<"P", "{", c, "}">> : c \in ContentChars}
MalformedLines == {<<"P", "{", "a">>}
DoneLine == <<"P", "E">>
LineKinds == ValidLines \cup MalformedLines \cup {DoneLine}
AllBodies == SeqsUpTo(LineKinds, MaxLines)
FewBodies == {<<>>, <<<<"P", "{", "a", "}">>>>}

\* the bytes the server writes: every line followed by a newline
Wire(body) == Flatten([i \in 1..Len(body) |-> body[i] \o <<NL>>])

\* chunk.split('\n')
RECURSIVE SplitLines(_)
SplitLines(chunk) ==
  IF \A i \in 1..Len(chunk) : chunk[i] # NL
  THEN <<chunk>>
  ELSE LET i == CHOOSE k \in 1..Len(chunk) :
                  chunk[k] = NL /\ \A j \in 1..(k - 1) : chunk[j] # NL
       IN  <<SubSeq(chunk, 1, i - 1)>> \o
           SplitLines(SubSeq(chunk, i + 1, Len(chunk)))

\* line.startsWith('data: ')
StartsWithData(line) == Len(line) >= 1 /\ line[1] = "P"

\* JSON.parse(data) succeeds: the object is complete
JsonParses(data) ==
  /\ Len(data) >= 2
  /\ data[1] = "{"
  /\ data[Len(data)] = "}"
  /\ \A i \in 2..(Len(data) - 1) : data[i] \in ContentChars

\* what one line adds to fullText (lines 789-804)
LineContent(line) ==
  IF ~StartsWithData(line) THEN <<>>
  ELSE LET data == Tail(line)
       IN  IF data = <<"E">> THEN <<>>
           ELSE IF JsonParses(data) THEN SubSeq(data, 2, Len(data) - 1)
           ELSE <<>>

\* the for-loop over the lines of one chunk
ChunkContent(chunk) ==
  LET lines == SplitLines(chunk)
  IN  Flatten([i \in 1..Len(lines) |-> LineContent(lines[i])])

\* ------------------------------------------------------------ conversation
Exchanges == 1..MaxSends
UserTexts == {<<"h">>, <<" ">>}
ReplyTexts == {<<"r">>}
ErrorText == <<"Sorry, I encountered an error. Please try again.">>
OpeningTexts == {<<"o">>}
DefaultPromptNotOk == <<"What's on your mind today?">>
DefaultPromptThrown == <<"How are you feeling today?">>

NoMsg == [sender |-> "none", text |-> <<>>, id |-> <<0, "none">>]
Msg(sender, text, id) == [sender |-> sender, text |-> text, id |-> id]

NoEx == [pc |-> "none", text |-> <<>>, via |-> "none", hdl |-> "none",
         body |-> <<>>, wire |-> <<>>, fullText |-> <<>>, timerMsg |-> <<>>,
         path |-> "none", fb |-> "none", appended |-> <<>>,
         requests |-> <<>>, resp |-> <<>>, escaped |-> FALSE]

ChatRequest(url, text) == [url |-> url, body |-> [message |-> text]]

\* setCurrentMessage(prev => prev ? { ...prev, text: fullText } : prev)
WithText(prev, fullText) ==
  IF prev = NoMsg THEN prev ELSE [prev EXCEPT !.text = fullText]

\* prev.map(msg => msg.id === aiMessageId ? { ...msg, text: fullText } : msg)
MapText(history, id, fullText) ==
  [i \in 1..Len(history) |->
     IF history[i].id = id THEN [history[i] EXCEPT !.text = fullText]
     ELSE history[i]]

EmptyCalls == EmptyBag
Call(op, st, arg, sel) == [op |-> op, st |-> st, arg |-> arg, sel |-> sel]

\* userId && initialLoaded && journal.length === 0 (the user is signed in)
shouldShowIntro == initialLoaded /\ journal = <<>>

\* sendMessage up to its first await (lines 724-757): the user message is
\* appended and POST /chat/stream is sent (a failing getToken is caught and
\* the request goes out without a token)
BeginSend(e, text, via, hdl) ==
  LET userMessage == Msg("user", text, <<e, "u">>)
  IN  /\ conversationHistory' = Append(conversationHistory, userMessage)
      /\ currentMessage' = userMessage
      /\ isLoading' = TRUE
      /\ isJournaling' = TRUE
      /\ xs' = [xs EXCEPT ![e] =
                  [NoEx EXCEPT !.pc = "stream", !.text = text, !.via = via,
                               !.hdl = hdl,
                               !.appended = <<userMessage>>,
                               !.requests = <<ChatRequest("/chat/stream", text)>>]]

\* KeoIntro handleSubmit -> onSubmit: startJournaling() begins
KeoIntroSubmit(text) ==
  /\ shouldShowIntro
  /\ ~isJournaling
  /\ sj.pc = "idle"
  /\ ~IsBlank(text)
  /\ isJournaling' = TRUE
  /\ isLoading' = TRUE
  /\ sj' = [pc |-> "fetch", via |-> "intro", text |-> text]
  /\ UNCHANGED <<conversationHistory, currentMessage, isSending, isStreaming,
                 xs, nSent, offTimers, introTimers, bodies, sendLimit, journalVars, summaryVars, auxVars>>

\* the Start Journaling button of the main page (rendered while !isJournaling)
StartJournalingClick ==
  /\ ~isJournaling
  /\ sj.pc = "idle"
  /\ isJournaling' = TRUE
  /\ isLoading' = TRUE
  /\ sj' = [pc |-> "fetch", via |-> "button", text |-> <<>>]
  /\ UNCHANGED <<conversationHistory, currentMessage, isSending, isStreaming,
                 xs, nSent, offTimers, introTimers, bodies, sendLimit, journalVars, summaryVars, auxVars>>

\* GET /opening-prompt settles; for the intro the continuation of onSubmit
\* runs: setTimeout(() => sendMessage(text), 1000); createJournalEntry(text)
StartJournalingSettles(promptText) ==
  /\ sj.pc = "fetch"
  /\ LET opening == Msg("ai", promptText, <<0, "o">>)
     IN  /\ currentMessage' = opening
         /\ conversationHistory' = <<opening>>
  /\ isLoading' = FALSE
  /\ IF sj.via = "intro"
     THEN /\ introTimers' = Append(introTimers, sj.text)
          /\ calls' = calls (+) SetToBag({Call("create", "fetch", 0, 0)})
     ELSE UNCHANGED <<introTimers, calls,
                 summaryVars, auxVars>>
  /\ sj' = [pc |-> "idle", via |-> "none", text |-> <<>>]
  /\ UNCHANGED <<isSending, isStreaming, isJournaling, xs, nSent, offTimers,
                 bodies, sendLimit, journal, journalTotal, journalPage,
                 initialLoaded, selectedEntry, server, nextId, loadPc, nCreates,
                 nDeletes, lastMore, moreLens, overlapped, summaryVars, auxVars>>

\* the timer set by the intro's onSubmit fires: sendMessage(text)
IntroTimerFires ==
  /\ introTimers # <<>>
  /\ nSent < sendLimit
  /\ BeginSend(nSent + 1, Head(introTimers), "intro", "none")
  /\ introTimers' = Tail(introTimers)
  /\ nSent' = nSent + 1
  /\ UNCHANGED <<isSending, isStreaming, offTimers, sj, bodies, sendLimit, journalVars, summaryVars, auxVars>>

\* handleSendMessage (Share button or Enter in the enabled textarea)
HandleSendMessage(text) ==
  /\ isJournaling
  /\ ~(isLoading \/ isSending \/ isStreaming)
  /\ ~IsBlank(text)
  /\ nSent < sendLimit
  /\ isSending' = TRUE
  /\ nSent' = nSent + 1
  /\ IF currentMessage = NoMsg
     THEN BeginSend(nSent + 1, text, "input", "wait")
     ELSE /\ xs' = [xs EXCEPT ![nSent + 1] =
                      [NoEx EXCEPT !.pc = "animOut", !.text = text,
                                   !.via = "input", !.hdl = "wait"]]
          /\ UNCHANGED <<conversationHistory, currentMessage, isLoading,
                         isJournaling,
                 summaryVars, auxVars>>
  /\ UNCHANGED <<isStreaming, offTimers, sj, introTimers, bodies, sendLimit, journalVars, summaryVars, auxVars>>

\* the exit animation of the current message ends: await sendMessage(text)
ExitAnimationEnds(e) ==
  /\ xs[e].pc = "animOut"
  /\ BeginSend(e, xs[e].text, "input", "wait")
  /\ UNCHANGED <<isSending, isStreaming, nSent, offTimers, sj, introTimers,
                 bodies, sendLimit, journalVars, summaryVars, auxVars>>

\* POST /chat/stream answers with a success status and a body (lines 759-778)
StreamOpens(e, body) ==
  /\ xs[e].pc = "stream"
  /\ body \in bodies
  /\ LET aiMessage == Msg("ai", <<>>, <<e, "a">>)
     IN  /\ conversationHistory' = Append(conversationHistory, aiMessage)
         /\ currentMessage' = aiMessage
         /\ xs' = [xs EXCEPT ![e].pc = "reading", ![e].path = "streamed",
                             ![e].body = body, ![e].wire = Wire(body),
                             ![e].appended = Append(@, aiMessage)]
  /\ isLoading' = FALSE
  /\ isStreaming' = TRUE
  /\ UNCHANGED <<isSending, isJournaling, nSent, offTimers, sj, introTimers,
                 bodies, sendLimit, journalVars, summaryVars, auxVars>>

\* the buffered request of lines 829-837
SendFallback(e) ==
  [xs EXCEPT ![e].pc = "fallback",
             ![e].requests = Append(@, ChatRequest("/chat", xs[e].text))]

\* POST /chat/stream fails outright: fetch throws (catch, line 824) or the
\* response has a non-success status or no body; POST /chat is sent
StreamFailsOutright(e, thrown) ==
  /\ xs[e].pc = "stream"
  /\ isStreaming' = IF thrown THEN FALSE ELSE isStreaming
  /\ xs' = [SendFallback(e) EXCEPT ![e].path = "outright"]
  /\ UNCHANGED <<conversationHistory, currentMessage, isLoading, isSending,
                 isJournaling, nSent, offTimers, sj, introTimers, bodies,
                 sendLimit, journalVars, summaryVars, auxVars>>

\* reader.read() delivers the next k tokens of the body (lines 782-805)
ReadChunk(e, k) ==
  /\ xs[e].pc = "reading"
  /\ k \in 1..Len(xs[e].wire)
  /\ LET content == ChunkContent(SubSeq(xs[e].wire, 1, k))
         fullText == xs[e].fullText \o content
     IN  /\ xs' = [xs EXCEPT ![e].fullText = fullText,
                             ![e].wire = SubSeq(@, k + 1, Len(@))]
         /\ currentMessage' = IF content = <<>> THEN currentMessage
                              ELSE WithText(currentMessage, fullText)
  /\ UNCHANGED <<conversationHistory, isLoading, isSending, isStreaming,
                 isJournaling, nSent, offTimers, sj, introTimers, bodies,
                 sendLimit, journalVars, summaryVars, auxVars>>

\* reader.read() reports done: final write-back, the 200 ms timer of the
\* inner finally, return, outer finally (lines 783, 808-822, 869-872)
ReadDone(e) ==
  /\ xs[e].pc = "reading"
  /\ xs[e].wire = <<>>
  /\ conversationHistory' = MapText(conversationHistory, <<e, "a">>, xs[e].fullText)
  /\ currentMessage' = WithText(currentMessage, xs[e].fullText)
  /\ offTimers' = offTimers + 1
  /\ isLoading' = FALSE
  /\ isStreaming' = FALSE
  /\ xs' = [xs EXCEPT ![e].pc = "done"]
  /\ UNCHANGED <<isSending, isJournaling, nSent, sj, introTimers, bodies,
                 sendLimit, journalVars, summaryVars, auxVars>>

\* reader.read() rejects: inner finally sets the 200 ms timer, the error is
\* caught at line 824 and the code goes on to the buffered request
ReadFails(e) ==
  /\ xs[e].pc = "reading"
  /\ offTimers' = offTimers + 1
  /\ isStreaming' = FALSE
  /\ xs' = [SendFallback(e) EXCEPT ![e].path = "readfail"]
  /\ UNCHANGED <<conversationHistory, currentMessage, isLoading, isSending,
                 isJournaling, nSent, sj, introTimers, bodies, sendLimit, journalVars, summaryVars, auxVars>>

\* the 200 ms timer: setIsStreaming(false)
StreamingOffTimerFires ==
  /\ offTimers > 0
  /\ offTimers' = offTimers - 1
  /\ isStreaming' = FALSE
  /\ UNCHANGED <<conversationHistory, currentMessage, isLoading, isSending,
                 isJournaling, xs, nSent, sj, introTimers, bodies, sendLimit, journalVars, summaryVars, auxVars>>

\* a catch block that rethrows instead of queueing the error message
OnFallbackFailureRethrows == [timerMsg |-> <<>>, escaped |-> TRUE]

\* the catch block of lines 857-868: what a failed buffered request leaves
OnFallbackFailure == [timerMsg |-> ErrorText, escaped |-> FALSE]

\* a success branch that shows the fixed error text
OnFallbackOkShowsError(response) == [timerMsg |-> ErrorText, escaped |-> FALSE]

\* what a 200 answer of POST /chat leaves (lines 843-856): data.response
OnFallbackOk(response) == [timerMsg |-> response, escaped |-> FALSE]

\* POST /chat settles; the append is deferred by 300 ms, finally runs now
FallbackSettles(e, fb, resp, left) ==
  /\ xs[e].pc = "fallback"
  /\ xs' = [xs EXCEPT ![e].pc = "timer", ![e].fb = fb, ![e].resp = resp,
                      ![e].timerMsg = left.timerMsg,
                      ![e].escaped = left.escaped]
  /\ isLoading' = FALSE
  /\ isStreaming' = FALSE
  /\ UNCHANGED <<conversationHistory, currentMessage, isSending, isJournaling,
                 nSent, offTimers, sj, introTimers, bodies, sendLimit, journalVars, summaryVars, auxVars>>

FallbackOk(e, response) ==
  FallbackSettles(e, "ok", response, OnFallbackOk(response))

FallbackFails(e) == FallbackSettles(e, "fail", <<>>, OnFallbackFailure)

\* the 300 ms timer of lines 853-856 / 865-868
AppendTimerFires(e) ==
  /\ xs[e].pc = "timer"
  /\ LET aiMessage == Msg("ai", xs[e].timerMsg, <<e, "b">>)
     IN  /\ conversationHistory' = Append(conversationHistory, aiMessage)
         /\ currentMessage' = aiMessage
         /\ xs' = [xs EXCEPT ![e].pc = "done",
                             ![e].appended = Append(@, aiMessage)]
  /\ UNCHANGED <<isLoading, isSending, isStreaming, isJournaling, nSent,
                 offTimers, sj, introTimers, bodies, sendLimit, journalVars, summaryVars, auxVars>>

\* sendMessage has returned to handleSendMessage: finally setIsSending(false)
HandlerFinally(e) ==
  /\ xs[e].hdl = "wait"
  /\ xs[e].pc \in {"timer", "done"}
  /\ isSending' = FALSE
  /\ xs' = [xs EXCEPT ![e].hdl = "done"]
  /\ UNCHANGED <<conversationHistory, currentMessage, isLoading, isStreaming,
                 isJournaling, nSent, offTimers, sj, introTimers, bodies,
                 sendLimit, journalVars, summaryVars, auxVars>>

\* ---------------------------------------------------------- entry list store
\* The server keeps the user's entries newest first; an entry is its id.
ServerCounts == {0, 3, 25}
Min(a, b) == IF a < b THEN a ELSE b

\* ids n, n-1, .., 1: the newest entry has the largest id
Newest(n) == [i \in 1..n |-> n + 1 - i]

\* GET /journal?limit=&offset= on a list
Page(list, limit, offset) == SubSeq(list, offset + 1, Min(Len(list), offset + limit))

\* prev.filter(j => j.id !== id)
RECURSIVE Without(_, _)
Without(list, id) ==
  IF list = <<>> THEN <<>>
  ELSE IF Head(list) = id THEN Without(Tail(list), id)
  ELSE <<Head(list)>> \o Without(Tail(list), id)

Ids(list) == {list[i] : i \in 1..Len(list)}
CallsOf(op) == {c \in BagToSet(calls) : c.op = op}
InflightOf(op) ==
  LET S == CallsOf(op)
      RECURSIVE Sum(_)
      Sum(T) == IF T = {} THEN 0
                ELSE LET c == CHOOSE x \in T : TRUE
                     IN  CopiesIn(c, calls) + Sum(T \ {c})
  IN  Sum(S)
Drop(c) == calls (-) SetToBag({c})
Add(c) == calls (+) SetToBag({c})

\* the rows the user clicks on: the first TouchRows cards of the list
TouchedIds == {journal[i] : i \in 1..Min(Len(journal), TouchRows)}

\* --- initial load effect (lines 632-705); the token is fetched once, a
\* failing getToken is caught.  GET /journal/count settles.
InitialCountSettles(outcome) ==
  /\ loadPc = "count"
  /\ journalTotal' = IF outcome = "ok" THEN Len(server) ELSE journalTotal
  /\ loadPc' = IF outcome = "throws" THEN "done" ELSE "page"
  /\ initialLoaded' = IF outcome = "throws" THEN TRUE ELSE initialLoaded
  /\ UNCHANGED <<chatVars, journal, journalPage, selectedEntry, server, nextId,
                 calls, nCreates, nDeletes, lastMore, moreLens, overlapped, summaryVars, auxVars>>

\* GET /journal?limit=PAGE_SIZE&offset=0 settles
InitialPageSettles(outcome) ==
  /\ loadPc = "page"
  /\ IF outcome = "ok"
     THEN /\ journal' = Page(server, PAGE_SIZE, 0)
          /\ journalPage' = 1
     ELSE UNCHANGED <<journal, journalPage,
                 summaryVars, auxVars>>
  /\ loadPc' = IF outcome = "throws" THEN "done" ELSE "rest"
  /\ initialLoaded' = IF outcome = "throws" THEN TRUE ELSE initialLoaded
  /\ UNCHANGED <<chatVars, journalTotal, selectedEntry, server, nextId, calls,
                 nCreates, nDeletes, lastMore, moreLens, overlapped, summaryVars, auxVars>>

\* GET /conversations and GET /user/goals settle (the server retains no
\* conversations; goals are not part of this model), then finally
InitialRestSettles(outcome) ==
  /\ loadPc = "rest"
  /\ conversationHistory' = IF outcome = "ok" THEN <<>> ELSE conversationHistory
  /\ loadPc' = "done"
  /\ initialLoaded' = TRUE
  /\ UNCHANGED <<currentMessage, isLoading, isSending, isStreaming,
                 isJournaling, xs, nSent, offTimers, sj, introTimers, bodies,
                 sendLimit, journal, journalTotal, journalPage, selectedEntry, server,
                 nextId, calls, nCreates, nDeletes, lastMore, moreLens,
                 overlapped, summaryVars, auxVars>>

\* --- loadMoreJournal (lines 707-722)
\* an offset that skips the page being asked for
NextOffsetSkipsPage(page) == (page + 1) * PAGE_SIZE

\* const nextOffset = journalPage * PAGE_SIZE (line 709)
NextOffset(page) == page * PAGE_SIZE

\* an early return that lets the call through when offset = total
LoadMoreReturnsEarlyStrict(page, total) == NextOffset(page) > total

\* the early return of line 710
LoadMoreReturnsEarly(page, total) == NextOffset(page) >= total

LoadMoreJournal ==
  /\ InflightOf("more") < MaxInflight
  /\ IF LoadMoreReturnsEarly(journalPage, journalTotal)
     THEN /\ lastMore' = "noop"
          /\ UNCHANGED <<calls, overlapped, summaryVars, auxVars>>
     ELSE /\ lastMore' = "sent"
          /\ calls' = Add(Call("more", "token", NextOffset(journalPage), 0))
          /\ overlapped' = (overlapped \/ InflightOf("more") > 0
                                       \/ loadPc \in {"count", "page"})
  /\ UNCHANGED <<chatVars, journal, journalTotal, journalPage, initialLoaded,
                 selectedEntry, server, nextId, loadPc, nCreates, nDeletes,
                 moreLens,
                 summaryVars, auxVars>>

\* getToken settles: a token (or none) is returned and the page is requested,
\* or getToken rejects and the empty catch of line 721 ends the call
LoadMoreTokenSettles(c, rejected) ==
  /\ c \in CallsOf("more")
  /\ c.st = "token"
  /\ calls' = IF rejected THEN Drop(c)
              ELSE Drop(c) (+) SetToBag({[c EXCEPT !.st = "fetch"]})
  /\ UNCHANGED <<chatVars, journal, journalTotal, journalPage, initialLoaded,
                 selectedEntry, server, nextId, loadPc, nCreates, nDeletes,
                 lastMore, moreLens, overlapped, summaryVars, auxVars>>

\* GET /journal?limit=PAGE_SIZE&offset=nextOffset settles
LoadMoreSettles(c, ok) ==
  /\ c \in CallsOf("more")
  /\ c.st = "fetch"
  /\ calls' = Drop(c)
  /\ IF ok
     THEN /\ journal' = journal \o Page(server, PAGE_SIZE, c.arg)
          /\ journalPage' = journalPage + 1
          /\ moreLens' = IF overlapped THEN moreLens
                         ELSE Append(moreLens, Len(journal'))
     ELSE UNCHANGED <<journal, journalPage, moreLens,
                 summaryVars, auxVars>>
  /\ UNCHANGED <<chatVars, journalTotal, initialLoaded, selectedEntry, server,
                 nextId, loadPc, nCreates, nDeletes, lastMore, overlapped, summaryVars, auxVars>>

\* --- createJournalEntry (lines 875-912), called by finishJournaling
CreateJournalEntry ==
  /\ nCreates < MaxCreates
  /\ nCreates' = nCreates + 1
  /\ calls' = Add(Call("create", "fetch", 0, 0))
  /\ UNCHANGED <<chatVars, journal, journalTotal, journalPage, initialLoaded,
                 selectedEntry, server, nextId, loadPc, nDeletes, lastMore,
                 moreLens, overlapped, summaryVars, auxVars>>

\* a success branch that puts the new record at the end of the list
PutLast(item, prev) == prev \o <<item>>

\* setJournal(prev => [item, ...prev]) (line 901)
PutFirst(item, prev) == <<item>> \o prev

\* POST /journal settles; on success the server's record is prepended
CreateSettles(c, ok) ==
  /\ c \in CallsOf("create")
  /\ calls' = Drop(c)
  /\ IF ok
     THEN /\ server' = <<nextId>> \o server
          /\ nextId' = nextId + 1
          /\ journal' = PutFirst(nextId, journal)
     ELSE UNCHANGED <<server, nextId, journal,
                 summaryVars, auxVars>>
  /\ UNCHANGED <<chatVars, journalTotal, journalPage, initialLoaded,
                 selectedEntry, loadPc, nCreates, nDeletes, lastMore, moreLens,
                 overlapped, summaryVars, auxVars>>

\* --- updateJournalEntry (lines 914-930).  Where updates are followed an
\* entry is the record the server keeps: id, title, content.
Entry(id, title, content) == [id |-> id, title |-> title, content |-> content]

\* updates: { title?: string; content?: string }; "keep" is an absent field.
\* Rename sends a title, updateContent a content.
Keep == "keep"
Updates ==
  {[title |-> t, content |-> Keep] : t \in {"t1", "t2"}} \cup
  {[title |-> Keep, content |-> c] : c \in {"c1"}}

\* PATCH /journal/{id} on the server: the fields sent replace the stored ones
Patched(rec, updates) ==
  [rec EXCEPT !.title = IF updates.title = Keep THEN @ ELSE updates.title,
              !.content = IF updates.content = Keep THEN @ ELSE updates.content]

\* the server's list after PATCH /journal/{id}
ServerPatched(list, id, updates) ==
  [i \in 1..Len(list) |->
     IF list[i].id = id THEN Patched(list[i], updates) ELSE list[i]]

\* the record a list holds for an id
RecordOf(list, id) == list[CHOOSE i \in 1..Len(list) : list[i].id = id]

\* a map that puts the returned record in every place
ReplaceEvery(prev, id, updated) == [i \in 1..Len(prev) |-> updated]

\* prev.map(j => (j.id === id ? updated : j)) (line 925)
ReplaceById(prev, id, updated) ==
  [i \in 1..Len(prev) |-> IF prev[i].id = id THEN updated ELSE prev[i]]

\* Rename on one of the first cards (line 1655), updateContent on its entry:
\* updateJournalEntry up to its await (a rejected getToken is caught)
UpdateJournalEntry(id, updates) ==
  /\ \E i \in 1..Min(Len(journal), TouchRows) : journal[i].id = id
  /\ InflightOf("update") < MaxUpdates
  /\ calls' = Add(Call("update", "fetch", [id |-> id, updates |-> updates],
                       "none"))
  /\ UNCHANGED <<chatVars, journal, journalTotal, journalPage, initialLoaded,
                 selectedEntry, server, nextId, loadPc, nCreates, nDeletes,
                 lastMore, moreLens, overlapped, summaryVars, auxVars>>

\* PATCH /journal/{id} settles; the call stays in the bag with what it returned
UpdateSettles(c, ok) ==
  /\ c \in CallsOf("update")
  /\ c.st = "fetch"
  /\ IF ok
     THEN LET stored == ServerPatched(server, c.arg.id, c.arg.updates)
              updated == RecordOf(stored, c.arg.id)
          IN  /\ server' = stored
              /\ journal' = ReplaceById(journal, c.arg.id, updated)
              /\ calls' = Drop(c) (+)
                          SetToBag({[c EXCEPT !.st = "returned", !.sel = "true"]})
     ELSE /\ calls' = Drop(c) (+)
                      SetToBag({[c EXCEPT !.st = "returned", !.sel = "false"]})
          /\ UNCHANGED <<server, journal>>
  /\ UNCHANGED <<chatVars, journalTotal, journalPage, initialLoaded,
                 selectedEntry, nextId, loadPc, nCreates, nDeletes, lastMore,
                 moreLens, overlapped, summaryVars, auxVars>>

\* --- selection: a click on a card, Back in the insights panel
SelectEntry(id) ==
  /\ id \in TouchedIds
  /\ selectedEntry # id
  /\ selectedEntry' = id
  /\ UNCHANGED <<chatVars, journal, journalTotal, journalPage, initialLoaded,
                 server, nextId, loadPc, calls, nCreates, nDeletes, lastMore,
                 moreLens, overlapped, summaryVars, auxVars>>

ClearSelection ==
  /\ selectedEntry # 0
  /\ selectedEntry' = 0
  /\ UNCHANGED <<chatVars, journal, journalTotal, journalPage, initialLoaded,
                 server, nextId, loadPc, calls, nCreates, nDeletes, lastMore,
                 moreLens, overlapped, summaryVars, auxVars>>

\* --- deleteJournalEntry (lines 932-947): the function is created by a render
\* and reads that render's selectedEntry after the await
DeleteJournalEntry(id) ==
  /\ id \in TouchedIds
  /\ nDeletes < MaxDeletes
  /\ nDeletes' = nDeletes + 1
  /\ calls' = Add(Call("delete", "fetch", id, selectedEntry))
  /\ UNCHANGED <<chatVars, journal, journalTotal, journalPage, initialLoaded,
                 selectedEntry, server, nextId, loadPc, nCreates, lastMore,
                 moreLens, overlapped, summaryVars, auxVars>>

\* selectedEntry?.id === id, on the selectedEntry the closure holds
DeletedWasSelected(c) == c.sel = c.arg

\* DELETE /journal/{id} settles
DeleteSettles(c, ok) ==
  /\ c \in CallsOf("delete")
  /\ ok => c.arg \in Ids(server)
  /\ calls' = Drop(c)
  /\ IF ok
     THEN /\ server' = Without(server, c.arg)
          /\ journal' = Without(journal, c.arg)
          /\ selectedEntry' = IF DeletedWasSelected(c) THEN 0 ELSE selectedEntry
     ELSE UNCHANGED <<server, journal, selectedEntry,
                 summaryVars, auxVars>>
  /\ UNCHANGED <<chatVars, journalTotal, journalPage, initialLoaded, nextId,
                 loadPc, nCreates, nDeletes, lastMore, moreLens, overlapped, summaryVars, auxVars>>

\* -------------------------------------------------------- summary batch loader
\* entrySummaries is a record keyed by entry id: a function on the ids that
\* have a value.  entrySummaryLoading maps an id to TRUE exactly when the
\* record holds true for it (every reader tests truthiness).
SummaryEntryCounts == {2}
NoSummaries == [id \in {} |-> <<>>]

\* entrySummaries[id] is truthy: present and not the empty string
HasSummary(sums, id) == id \in DOMAIN sums /\ sums[id] # <<>>

\* a summary as the server sends it: "t" text, " " white space, "Y" the clause
\* 'You started by mentioning: "..."', "K" the speaker label 'Keo:'
RawSummaries == {<<"t">>, <<"Y", " ", "t", " ", "K", "t">>, <<"K", "t">>}

\* the answers of GET /journal/{id}/insights: a summary, a non-success
\* status, or a rejected fetch
SummaryReplies ==
  {[outcome |-> "ok", raw |-> r] : r \in RawSummaries} \cup
  {[outcome |-> o, raw |-> <<>>] : o \in {"notOk", "throws"}}

RECURSIVE DropClauses(_)
DropClauses(r) ==
  IF r = <<>> THEN <<>>
  ELSE IF Head(r) = "Y" THEN DropClauses(Tail(r))
  ELSE <<Head(r)>> \o DropClauses(Tail(r))

RECURSIVE UpToLabel(_)
UpToLabel(r) ==
  IF r = <<>> \/ Head(r) = "K" THEN <<>>
  ELSE <<Head(r)>> \o UpToLabel(Tail(r))

RECURSIVE TrimLeft(_)
TrimLeft(r) == IF r # <<>> /\ Head(r) = " " THEN TrimLeft(Tail(r)) ELSE r

RECURSIVE TrimRight(_)
TrimRight(r) ==
  IF r # <<>> /\ r[Len(r)] = " " THEN TrimRight(SubSeq(r, 1, Len(r) - 1)) ELSE r

\* sanitizeSummary (lines 1119-1122)
sanitizeSummary(r) == TrimRight(TrimLeft(UpToLabel(DropClauses(r))))

\* a failed fetch that resolves to a visible error text
FetchResultShowsError(outcome, raw) ==
  IF outcome = "ok" THEN sanitizeSummary(raw) ELSE <<"e">>

\* what one fetch of a batch resolves to (lines 1148-1158)
FetchResult(outcome, raw) ==
  IF outcome = "ok" THEN sanitizeSummary(raw) ELSE <<>>

\* what the server answered for an id, as logged when its batch is merged:
\* <<"failed">>, or <<"ok">> followed by the summary free of boilerplate
FetchKind(outcome, raw) ==
  IF outcome = "ok" THEN <<"ok">> \o sanitizeSummary(raw) ELSE <<"failed">>

\* filteredJournal.slice(0, 5).map(entry => entry.id), no search text
visibleIds == SubSeq(journal, 1, Min(Len(journal), VisibleCount))

\* the filter of lines 1126 and 1619 on the state a render holds
NeedsLoad(sums, loading, batch, id) ==
  ~HasSummary(sums, id) /\ ~loading[id] /\ id \notin batch

\* the content preview cell (lines 1680-1689)
CellShows(id) ==
  IF entrySummaryLoading[id] THEN "skeleton"
  ELSE IF HasSummary(entrySummaries, id) THEN "summary"
  ELSE "preview"

BagSize(B) == BagCardinality(B)

\* the entry list renders: every visible card that needs a summary sets a
\* 100 ms timer; all of them hold this render's ids and this render's
\* loadEntrySummariesBatch (lines 1617-1625)
RenderEntryList ==
  /\ initialLoaded
  /\ ~isJournaling
  /\ LET need == {i \in 1..Len(visibleIds) :
                    NeedsLoad(entrySummaries, entrySummaryLoading,
                              batchLoadingEntries, visibleIds[i])}
         timer == [ids |-> visibleIds, sums |-> entrySummaries,
                   loading |-> entrySummaryLoading,
                   batch |-> batchLoadingEntries]
     IN  /\ need # {}
         /\ BagSize(timers) + Cardinality(need) <= MaxTimers
         /\ timers' = timers (+) [t \in {timer} |-> Cardinality(need)]
  /\ UNCHANGED <<chatVars, journalVars, entrySummaries, entrySummaryLoading,
                 batchLoadingEntries, invs, fetchLog, auxVars>>

\* entryIds.filter(...) on the state the callback was created with (line 1126)
ToLoad(t) ==
  SelectSeq(t.ids, LAMBDA id : NeedsLoad(t.sums, t.loading, t.batch, id))

\* toLoad.slice(i, i + batchSize)
Batch(toLoad, i) == SubSeq(toLoad, i + 1, Min(Len(toLoad), i + batchSize))

\* a timer fires: loadEntrySummariesBatch(visibleIds) up to await getToken
TimerFires(t) ==
  /\ BagIn(t, timers)
  /\ timers' = timers (-) SetToBag({t})
  /\ LET toLoad == ToLoad(t)
     IN  IF toLoad = <<>>
         THEN UNCHANGED <<entrySummaryLoading, batchLoadingEntries, invs>>
         ELSE /\ BagSize(invs) < MaxInvocations
              /\ batchLoadingEntries' = batchLoadingEntries \cup Ids(toLoad)
              /\ entrySummaryLoading' =
                   [id \in DOMAIN entrySummaryLoading |->
                      entrySummaryLoading[id] \/ id \in Ids(toLoad)]
              /\ invs' = invs (+) SetToBag({[toLoad |-> toLoad, st |-> "token",
                                            tok |-> "none",
                                            at |-> 0, pending |-> {},
                                            results |-> NoSummaries,
                                            kinds |-> NoSummaries]})
  /\ UNCHANGED <<chatVars, journalVars, entrySummaries, fetchLog, auxVars>>

\* getToken settles: a rejection is caught by the inner try of lines 1135-1137
\* and leaves the token null.  The first batch is requested.
BatchTokenSettles(v, rejected) ==
  /\ BagIn(v, invs)
  /\ v.st = "token"
  /\ invs' = (invs (-) SetToBag({v})) (+)
             SetToBag({[v EXCEPT !.st = "batch",
                                 !.tok = IF rejected THEN "null" ELSE "token",
                                 !.pending = Ids(Batch(v.toLoad, 0))]})
  /\ UNCHANGED <<chatVars, journalVars, entrySummaries, entrySummaryLoading,
                 batchLoadingEntries, timers, fetchLog, auxVars>>

\* setEntrySummaries(prev => ({ ...prev, ...summaries })) (line 1170)
Merge(prev, summaries) ==
  [id \in DOMAIN prev \cup DOMAIN summaries |->
     IF id \in DOMAIN summaries THEN summaries[id] ELSE prev[id]]

\* a finally block that leaves entrySummaryLoading as it is
LoadingLeftSet(loading, toLoad) == loading

\* toLoad.forEach(id => setEntrySummaryLoading(prev => ({...prev, [id]: false})))
LoadingCleared(loading, toLoad) ==
  [x \in DOMAIN loading |-> loading[x] /\ x \notin Ids(toLoad)]

\* GET /journal/{id}/insights of a batch settles.  The last one resolves
\* Promise.allSettled: the batch is merged and either the next batch is
\* requested or the finally block clears the marks (lines 1161-1180)
SummaryFetchSettles(v, id, outcome, raw) ==
  /\ BagIn(v, invs)
  /\ v.st = "batch"
  /\ id \in v.pending
  /\ LET results == Merge(v.results, [x \in {id} |-> FetchResult(outcome, raw)])
         kinds == Merge(v.kinds, [x \in {id} |-> FetchKind(outcome, raw)])
         pending == v.pending \ {id}
         next == v.at + batchSize
     IN  IF pending # {}
         THEN /\ invs' = (invs (-) SetToBag({v})) (+)
                         SetToBag({[v EXCEPT !.pending = pending,
                                             !.results = results,
                                             !.kinds = kinds]})
              /\ UNCHANGED <<entrySummaries, entrySummaryLoading,
                             batchLoadingEntries, fetchLog>>
         ELSE /\ entrySummaries' = Merge(entrySummaries, results)
              /\ fetchLog' = [x \in DOMAIN fetchLog |->
                                IF x \in DOMAIN kinds
                                THEN fetchLog[x] \cup {kinds[x]}
                                ELSE fetchLog[x]]
              /\ IF next < Len(v.toLoad)
                 THEN /\ invs' = (invs (-) SetToBag({v})) (+)
                                 SetToBag({[v EXCEPT !.at = next,
                                              !.pending = Ids(Batch(v.toLoad, next)),
                                              !.results = NoSummaries,
                                              !.kinds = NoSummaries]})
                      /\ UNCHANGED <<entrySummaryLoading, batchLoadingEntries>>
                 ELSE /\ invs' = invs (-) SetToBag({v})
                      /\ entrySummaryLoading' =
                           LoadingCleared(entrySummaryLoading, v.toLoad)
                      /\ batchLoadingEntries' = batchLoadingEntries \ Ids(v.toLoad)
  /\ UNCHANGED <<chatVars, journalVars, timers, auxVars>>

\* the requests for summaries that are outstanding for an id
Outstanding(id) ==
  LET S == {v \in BagToSet(invs) : id \in v.pending}
      RECURSIVE Sum(_)
      Sum(T) == IF T = {} THEN 0
                ELSE LET v == CHOOSE x \in T : TRUE
                     IN  CopiesIn(v, invs) + Sum(T \ {v})
  IN  Sum(S)

\* ------------------------------------------------------- insights dashboard
\* InsightsDashboard (src/src/components/InsightsDashboard.tsx).  dash holds
\* the component's state, the position of the running fetchDashboardData
\* (pc), the number of invocations (n), the invocations whose 60 s abort
\* timer is pending (armed) and the answer the last invocation got (last).
Null == <<"null">>
DashTimedOutText ==
  <<"Request timed out. The analysis is taking longer than expected. Please try again.">>
DashFailedText == <<"Failed to load insights dashboard. Please try again.">>

\* the answers of GET /insights/dashboard
DashReplies ==
  {[kind |-> "ok", status |-> "200", body |-> <<"d">>],
   [kind |-> "badJson", status |-> "200", body |-> <<"x">>],
   [kind |-> "notOk", status |-> "500", body |-> <<"x">>],
   [kind |-> "notOk", status |-> "404", body |-> <<>>],
   [kind |-> "textFails", status |-> "500", body |-> <<>>],
   [kind |-> "network", status |-> "none", body |-> <<>>]}
NoReply == [kind |-> "none", status |-> "none", body |-> <<>>]

DashNew ==
  [dashboardData |-> Null, isLoading |-> TRUE, error |-> Null, pc |-> "new",
   n |-> 0, armed |-> {}, last |-> NoReply]

\* `Failed to load insights dashboard: ${response.status} - ${errorText}`
DashStatusError(status, errorText) ==
  <<"Failed to load insights dashboard: ", status, " - ">> \o errorText

\* a catch block that does not tell an abort from other failures
DashCatchAllAlike(name) == DashFailedText

\* the catch block (lines 111-116)
DashCatch(name) ==
  IF name = "AbortError" THEN DashTimedOutText ELSE DashFailedText

\* fetchDashboardData up to its first await: the mount effect, or Try Again
\* on the error view.  Without a Clerk session there is no token to await.
FetchDashboardData(hasSession) ==
  /\ \/ dash.pc = "new"
     \/ dash.pc = "idle" /\ ~dash.isLoading /\ dash.error # Null
  /\ dash.n < MaxDashFetches
  /\ dash' = [dash EXCEPT !.isLoading = TRUE, !.error = Null,
                          !.n = @ + 1,
                          !.pc = IF hasSession THEN "token" ELSE "fetch",
                          !.armed = IF hasSession THEN @ ELSE @ \cup {dash.n + 1},
                          !.last = NoReply]
  /\ UNCHANGED <<chatVars, journalVars, summaryVars, panel, user, editor, tour>>

\* window.Clerk.session.getToken settles; the await is not wrapped, so a
\* rejection goes to the catch block
DashTokenSettles(rejected) ==
  /\ dash.pc = "token"
  /\ dash' = IF rejected
             THEN [dash EXCEPT !.error = DashCatch("Error"), !.isLoading = FALSE,
                               !.pc = "idle",
                               !.last = [NoReply EXCEPT !.kind = "tokenFails"]]
             ELSE [dash EXCEPT !.pc = "fetch", !.armed = @ \cup {dash.n}]
  /\ UNCHANGED <<chatVars, journalVars, summaryVars, panel, user, editor, tour>>

\* the request settles before its timer fires (lines 95-119)
DashFetchSettles(reply) ==
  /\ dash.pc = "fetch"
  /\ dash.n \in dash.armed
  /\ dash' =
       [dash EXCEPT
          !.armed = IF reply.kind = "network" THEN @ ELSE @ \ {dash.n},
          !.dashboardData = IF reply.kind = "ok" THEN reply.body ELSE @,
          !.error = CASE reply.kind = "ok" -> @
                      [] reply.kind = "notOk" ->
                           DashStatusError(reply.status, reply.body)
                      [] OTHER -> DashCatch("Error"),
          !.isLoading = FALSE,
          !.pc = "idle",
          !.last = reply]
  /\ UNCHANGED <<chatVars, journalVars, summaryVars, panel, user, editor, tour>>

\* a 60 s timer fires: controller.abort().  The request of that invocation,
\* if still outstanding, rejects with an AbortError.
DashTimerFires(k) ==
  /\ k \in dash.armed
  /\ dash' =
       IF k = dash.n /\ dash.pc = "fetch"
       THEN [dash EXCEPT !.armed = @ \ {k}, !.error = DashCatch("AbortError"),
                         !.isLoading = FALSE, !.pc = "idle",
                         !.last = [NoReply EXCEPT !.kind = "timeout"]]
       ELSE [dash EXCEPT !.armed = @ \ {k}]
  /\ UNCHANGED <<chatVars, journalVars, summaryVars, panel, user, editor, tour>>

\* ------------------------------------------------------ entry insights panel
\* EntryInsightsPanel (lines 37-95).  panel holds the entryId prop (0: not
\* mounted), the component's state and the fetchInsights invocations that
\* are outstanding, each with the entryId of the render that started it.
PanelFailedText == <<"Failed to load insights. Please try again.">>
PanelClosed ==
  [entryId |-> 0, insights |-> Null, isLoading |-> FALSE, error |-> Null,
   running |-> {}, n |-> 0, failed |-> FALSE]

\* data.insights of GET /journal/{id}/insights
InsightsOf(id) == <<"insights", id>>

\* a fetchInsights that starts without clearing the error
FetchInsightsKeepsError(id) ==
  [panel EXCEPT !.isLoading = TRUE, !.insights = Null,
                !.failed = FALSE,
                !.n = @ + 1,
                !.running = @ \cup {[k |-> panel.n + 1, id |-> id, st |-> "token"]}]

\* fetchInsights up to await getToken (lines 61-68)
FetchInsights(id) ==
  [panel EXCEPT !.isLoading = TRUE, !.error = Null, !.insights = Null,
                !.failed = FALSE,
                !.n = @ + 1,
                !.running = @ \cup {[k |-> panel.n + 1, id |-> id, st |-> "token"]}]

\* a card of another entry is selected: the panel mounts, or its entryId
\* prop changes, and the effect of lines 53-59 runs
PanelEntryChanges(id) ==
  /\ id # panel.entryId
  /\ panel.n < MaxPanelFetches
  /\ panel' = [FetchInsights(id) EXCEPT !.entryId = id]
  /\ UNCHANGED <<chatVars, journalVars, summaryVars, dash, user, editor, tour>>

\* Try Again on the error view (line 203)
PanelTryAgain ==
  /\ panel.entryId # 0
  /\ ~panel.isLoading
  /\ panel.error # Null
  /\ panel.n < MaxPanelFetches
  /\ panel' = FetchInsights(panel.entryId)
  /\ UNCHANGED <<chatVars, journalVars, summaryVars, dash, user, editor, tour>>

\* Back: the panel unmounts; what its outstanding calls set later is dropped
PanelBack ==
  /\ panel.entryId # 0
  /\ panel' = [PanelClosed EXCEPT !.n = panel.n]
  /\ UNCHANGED <<chatVars, journalVars, summaryVars, dash, user, editor, tour>>

\* getToken settles (a rejection is caught at line 69)
PanelTokenSettles(c) ==
  /\ c \in panel.running
  /\ c.st = "token"
  /\ panel' = [panel EXCEPT !.running = (@ \ {c}) \cup {[c EXCEPT !.st = "fetch"]}]
  /\ UNCHANGED <<chatVars, journalVars, summaryVars, dash, user, editor, tour>>

\* setInsights(data.insights) (line 81)
Stored(c, current, prev) == InsightsOf(c.id)

\* GET /journal/{id}/insights settles (lines 78-94)
PanelFetchSettles(c, ok) ==
  /\ c \in panel.running
  /\ c.st = "fetch"
  /\ panel' = [panel EXCEPT
                 !.running = @ \ {c},
                 !.insights = IF ok THEN Stored(c, panel.entryId, @) ELSE @,
                 !.error = IF ok THEN @ ELSE PanelFailedText,
                 !.failed = IF ok THEN @ ELSE TRUE,
                 !.isLoading = FALSE]
  /\ UNCHANGED <<chatVars, journalVars, summaryVars, dash, user, editor, tour>>

\* ------------------------------------------------------- change of the user
\* user counts the changes of userId and keeps the number of exchanges that
\* had been started when userId changed last.
UserStart == [changes |-> 0, sentBefore |-> 0]

\* userId changes: the reset effect (lines 592-606) clears the chat, the list
\* and the flags; the cleanup of the load effect sets ignore on the running
\* load and load() starts again (lines 632-705).  Nothing else is cancelled:
\* requests and timers of sendMessage stay as they are.
UserIdChanges ==
  /\ user.changes < MaxUserChanges
  /\ currentMessage' = NoMsg
  /\ conversationHistory' = <<>>
  /\ journal' = <<>>
  /\ journalTotal' = 0
  /\ journalPage' = 0
  /\ initialLoaded' = FALSE
  /\ isJournaling' = FALSE
  /\ isSending' = FALSE
  /\ isLoading' = FALSE
  /\ isStreaming' = FALSE
  /\ loadPc' = "count"
  /\ server' = Newest(NextUserEntries)
  /\ nextId' = NextUserEntries + 1
  /\ user' = [changes |-> user.changes + 1, sentBefore |-> nSent]
  /\ UNCHANGED <<xs, nSent, offTimers, sj, introTimers, bodies, sendLimit,
                 selectedEntry, calls, nCreates, nDeletes, lastMore, moreLens,
                 overlapped, summaryVars, dash, panel, editor, tour>>

\* ----------------------------------------------------------- journal editor
\* The full-screen editor of src/src/App.tsx.  editor holds the state the
\* handlers read and write, the entries POST /journal has stored (the id of
\* an entry is its place in server), the calls of handleContinueWriting
\* ("guide") and finishJournaling ("finish") that are outstanding, each with
\* the journalText and currentJournalId of the render that started it and
\* the number of its session, and the number of entries created by the
\* calls of each session.  getToken is folded into the request that follows
\* it: its rejection is caught and the request is sent either way.
EditorTexts == {<<" ">>, <<"a">>, <<"b">>}
EditorClosed ==
  [isJournaling |-> FALSE, isLoading |-> FALSE, isSending |-> FALSE,
   journalText |-> <<>>, currentJournalId |-> 0, journal |-> <<>>,
   server |-> <<>>, ops |-> {}, n |-> 0, starting |-> 0, session |-> 0,
   created |-> [s \in 1..MaxSessions |-> 0]]

\* startJournaling up to its first await (lines 1313-1317).  The main page,
\* and GuidedTour with it, is replaced by the editor.
EditorStartJournaling ==
  /\ ~editor.isJournaling
  /\ ~tour.open
  /\ editor.session < MaxSessions
  /\ editor' = [editor EXCEPT !.isJournaling = TRUE, !.isLoading = TRUE,
                              !.journalText = <<>>, !.currentJournalId = 0,
                              !.starting = @ + 1, !.session = @ + 1]
  /\ tour' = [tour EXCEPT !.index = 0]
  /\ UNCHANGED <<chatVars, journalVars, summaryVars, dash, panel, user>>

\* GET /opening-prompt settles: a prompt is set, finally setIsLoading(false)
EditorPromptSettles ==
  /\ editor.starting > 0
  /\ editor' = [editor EXCEPT !.isLoading = FALSE, !.starting = @ - 1]
  /\ UNCHANGED <<chatVars, journalVars, summaryVars, dash, panel, user, tour>>

\* onChange of the textarea (disabled while isLoading || isSending)
EditorType(text) ==
  /\ editor.isJournaling
  /\ ~(editor.isLoading \/ editor.isSending)
  /\ text # editor.journalText
  /\ editor' = [editor EXCEPT !.journalText = text]
  /\ UNCHANGED <<chatVars, journalVars, summaryVars, dash, panel, user, tour>>

EditorOp(kind, st) ==
  [k |-> editor.n + 1, kind |-> kind, st |-> st, text |-> editor.journalText,
   id |-> editor.currentJournalId, s |-> editor.session]

\* handleContinueWriting -> updateJournalPrompt up to POST /chat (lines
\* 1038-1062, 1125-1130); the button is disabled while the text is blank or
\* isLoading || isSending
HandleContinueWriting ==
  /\ editor.isJournaling
  /\ ~IsBlank(editor.journalText)
  /\ ~(editor.isLoading \/ editor.isSending)
  /\ editor.n < MaxEditorOps
  /\ editor' = [editor EXCEPT !.isLoading = TRUE, !.isSending = TRUE,
                              !.n = @ + 1,
                              !.ops = @ \cup {EditorOp("guide", "chat")}]
  /\ UNCHANGED <<chatVars, journalVars, summaryVars, dash, panel, user, tour>>

\* both finally blocks (lines 1102-1105, 1137-1139)
GuideEnds(ed, c) ==
  [ed EXCEPT !.isLoading = FALSE, !.isSending = FALSE, !.ops = @ \ {c}]

\* POST /chat settles (lines 1064-1092): the first save is the PATCH of
\* currentJournalId, if the render that started the call had one, else
\* POST /journal
GuideChatSettles(c, ok) ==
  /\ c \in editor.ops
  /\ c.kind = "guide"
  /\ c.st = "chat"
  /\ editor' =
       IF ok
       THEN [editor EXCEPT
               !.ops = (@ \ {c}) \cup
                       {[c EXCEPT !.st = IF c.id # 0 THEN "patch" ELSE "post"]}]
       ELSE GuideEnds(editor, c)
  /\ UNCHANGED <<chatVars, journalVars, summaryVars, dash, panel, user, tour>>

\* the save of updateJournalPrompt settles (lines 1075-1094, 1020-1036); a
\* POST /journal that succeeds stores the entry, setCurrentJournalId(item.id)
\* and setJournal(prev => [item, ...prev])
GuideSaveSettles(c, ok) ==
  /\ c \in editor.ops
  /\ c.kind = "guide"
  /\ c.st \in {"post", "patch"}
  /\ editor' =
       CASE ok /\ c.st = "post" ->
              [GuideEnds(editor, c) EXCEPT
                 !.server = Append(@, c.text),
                 !.currentJournalId = Len(editor.server) + 1,
                 !.journal = <<Len(editor.server) + 1>> \o @,
                 !.created[c.s] = @ + 1]
         [] ok /\ c.st = "patch" ->
              [GuideEnds(editor, c) EXCEPT !.server[c.id] = c.text]
         [] OTHER -> GuideEnds(editor, c)
  /\ UNCHANGED <<chatVars, journalVars, summaryVars, dash, panel, user, tour>>

\* the reset at the end of finishJournaling (lines 1384-1388); the editor
\* gives way to the main page
FinishReset(ed) ==
  [ed EXCEPT !.isJournaling = FALSE, !.journalText = <<>>,
             !.currentJournalId = 0]

\* Finish & Save (lines 1350-1358, 1491-1497; the button is never disabled):
\* with blank text the reset follows at once, else the save is requested
FinishJournaling ==
  /\ editor.isJournaling
  /\ IF IsBlank(editor.journalText)
     THEN editor' = FinishReset(editor)
     ELSE /\ editor.n < MaxEditorOps
          /\ editor' =
               [editor EXCEPT
                  !.n = @ + 1,
                  !.ops = @ \cup
                     {EditorOp("finish", IF editor.currentJournalId # 0
                                         THEN "patch" ELSE "post")}]
  /\ UNCHANGED <<chatVars, journalVars, summaryVars, dash, panel, user, tour>>

\* the save of finishJournaling settles (lines 1353-1388)
FinishSaveSettles(c, ok) ==
  /\ c \in editor.ops
  /\ c.kind = "finish"
  /\ editor' =
       LET left == [FinishReset(editor) EXCEPT !.ops = @ \ {c}]
       IN  CASE ok /\ c.st = "post" ->
                  [left EXCEPT !.server = Append(@, c.text),
                               !.journal = <<Len(editor.server) + 1>> \o @,
                               !.created[c.s] = @ + 1]
             [] ok /\ c.st = "patch" -> [left EXCEPT !.server[c.id] = c.text]
             [] OTHER -> left
  /\ UNCHANGED <<chatVars, journalVars, summaryVars, dash, panel, user, tour>>

\* -------------------------------------------------------------- guided tour
\* GuidedTour (src/src/components/GuidedTour.tsx) and startTour of App.  tour
\* holds tourOpen, tourSteps (the names of the steps), the component's
\* index, and which of the optional targets the main page shows: the entry
\* list (data-tour="journal-list", rendered when the filtered list has
\* entries) and the dashboard (data-tour="insights-dashboard", rendered when
\* no entry is selected).
candidates ==
  <<"brand", "start-journaling", "search-input", "journal-list",
    "insights-dashboard">>
TourStart ==
  [open |-> FALSE, steps |-> <<>>, index |-> 0, listShown |-> TRUE,
   selected |-> FALSE, opens |-> 0]

\* !!document.querySelector(s.selector) on the main page
OnPage(name, t) ==
  CASE name = "journal-list" -> t.listShown
    [] name = "insights-dashboard" -> ~t.selected
    [] OTHER -> TRUE

\* candidates.filter(s => !!document.querySelector(s.selector))
RECURSIVE Filtered(_, _)
Filtered(list, t) ==
  IF list = <<>> THEN <<>>
  ELSE IF OnPage(Head(list), t) THEN <<Head(list)>> \o Filtered(Tail(list), t)
  ELSE Filtered(Tail(list), t)

\* startTour (lines 1156-1193), from the Guide button or the auto-run timer;
\* in the editor no target is on the page and startTour returns
StartTour ==
  /\ ~editor.isJournaling
  /\ ~tour.open
  /\ tour.opens < MaxTourOpens
  /\ LET available == Filtered(candidates, tour)
     IN  /\ available # <<>>
         /\ tour' = [tour EXCEPT !.steps = available, !.open = TRUE,
                                 !.opens = @ + 1]
  /\ UNCHANGED <<chatVars, journalVars, summaryVars, dash, panel, user, editor>>

\* the popover is rendered from steps[index] (lines 122, 146-160): its buttons
\* are on the page when that step exists
PopoverShown == tour.open /\ tour.index < Len(tour.steps)

\* Next (line 175), shown while index < total - 1
TourNext ==
  /\ PopoverShown
  /\ tour.index < Len(tour.steps) - 1
  /\ tour' = [tour EXCEPT !.index = Min(Len(tour.steps) - 1, @ + 1)]
  /\ UNCHANGED <<chatVars, journalVars, summaryVars, dash, panel, user, editor>>

\* Previous (line 169), disabled at index 0
TourPrevious ==
  /\ PopoverShown
  /\ tour.index # 0
  /\ tour' = [tour EXCEPT !.index = IF @ - 1 > 0 THEN @ - 1 ELSE 0]
  /\ UNCHANGED <<chatVars, journalVars, summaryVars, dash, panel, user, editor>>

\* Skip, Finish (shown at the last step) or a click on the backdrop: onClose
TourClose ==
  /\ PopoverShown
  /\ tour' = [tour EXCEPT !.open = FALSE]
  /\ UNCHANGED <<chatVars, journalVars, summaryVars, dash, panel, user, editor>>

\* a card is clicked: the panel of the entry replaces the dashboard
TourSelectEntry ==
  /\ ~editor.isJournaling
  /\ ~tour.open
  /\ tour.listShown
  /\ ~tour.selected
  /\ tour' = [tour EXCEPT !.selected = TRUE]
  /\ UNCHANGED <<chatVars, journalVars, summaryVars, dash, panel, user, editor>>

\* Back on the panel: setSelectedEntry(null)
TourEntryBack ==
  /\ ~editor.isJournaling
  /\ ~tour.open
  /\ tour.selected
  /\ tour' = [tour EXCEPT !.selected = FALSE]
  /\ UNCHANGED <<chatVars, journalVars, summaryVars, dash, panel, user, editor>>

\* the search text is changed: it matches no entry, or is cleared again
TourSearch ==
  /\ ~editor.isJournaling
  /\ ~tour.open
  /\ tour' = [tour EXCEPT !.listShown = ~@]
  /\ UNCHANGED <<chatVars, journalVars, summaryVars, dash, panel, user, editor>>

\* ------------------------------------------------------------ specifications
ChatStart ==
  /\ conversationHistory = <<>>
  /\ currentMessage = NoMsg
  /\ isLoading = FALSE
  /\ isSending = FALSE
  /\ isStreaming = FALSE
  /\ isJournaling = FALSE
  /\ xs = [e \in Exchanges |-> NoEx]
  /\ nSent = 0
  /\ offTimers = 0
  /\ sj = [pc |-> "idle", via |-> "none", text |-> <<>>]
  /\ introTimers = <<>>

JournalStart(n) ==
  /\ journal = <<>>
  /\ journalTotal = 0
  /\ journalPage = 0
  /\ initialLoaded = FALSE
  /\ selectedEntry = 0
  /\ server = Newest(n)
  /\ nextId = n + 1
  /\ loadPc = "count"
  /\ calls = EmptyCalls
  /\ nCreates = 0
  /\ nDeletes = 0
  /\ lastMore = "none"
  /\ moreLens = <<>>
  /\ overlapped = FALSE

\* the dashboard and the insights panel are not on the page
AuxStart ==
  /\ dash = DashNew
  /\ panel = PanelClosed
  /\ user = UserStart
  /\ editor = EditorClosed
  /\ tour = TourStart

SummaryStart(n) ==
  /\ AuxStart
  /\ entrySummaries = NoSummaries
  /\ entrySummaryLoading = [id \in 1..(n + MaxCreates) |-> FALSE]
  /\ batchLoadingEntries = {}
  /\ timers = EmptyBag
  /\ invs = EmptyBag
  /\ fetchLog = [id \in 1..(n + MaxCreates) |-> {}]

\* the state the initial load leaves for a user with n entries (n <= PAGE_SIZE)
JournalLoaded(n) ==
  /\ journal = Newest(n)
  /\ journalTotal = n
  /\ journalPage = 1
  /\ initialLoaded = TRUE
  /\ selectedEntry = 0
  /\ server = Newest(n)
  /\ nextId = n + 1
  /\ loadPc = "done"
  /\ calls = EmptyCalls
  /\ nCreates = 0
  /\ nDeletes = 0
  /\ lastMore = "none"
  /\ moreLens = <<>>
  /\ overlapped = FALSE

\* --- the conversation of a new user: intro, input box, timers
InitChat ==
  /\ ChatStart
  /\ bodies = FewBodies
  /\ sendLimit = MaxSends
  /\ JournalLoaded(0)
  /\ SummaryStart(0)

NextChat ==
  \/ \E text \in UserTexts : KeoIntroSubmit(text)
  \/ StartJournalingClick
  \/ \E t \in OpeningTexts :
        StartJournalingSettles(t)
  \/ IntroTimerFires
  \/ \E text \in UserTexts : HandleSendMessage(text)
  \/ \E e \in Exchanges : ExitAnimationEnds(e)
  \/ \E e \in Exchanges, body \in bodies : StreamOpens(e, body)
  \/ \E e \in Exchanges, thrown \in BOOLEAN : StreamFailsOutright(e, thrown)
  \/ \E e \in Exchanges, k \in 1..(5 * MaxLines) : ReadChunk(e, k)
  \/ \E e \in Exchanges : ReadDone(e)
  \/ \E e \in Exchanges : ReadFails(e)
  \/ StreamingOffTimerFires
  \/ \E e \in Exchanges, r \in ReplyTexts : FallbackOk(e, r)
  \/ \E e \in Exchanges : FallbackFails(e)
  \/ \E e \in Exchanges : AppendTimerFires(e)
  \/ \E e \in Exchanges : HandlerFinally(e)
  \/ \E c \in CallsOf("create"), ok \in BOOLEAN : CreateSettles(c, ok)

SpecChat == InitChat /\ [][NextChat]_vars

\* --- one conversation through the input box, every stream body
InitStream ==
  /\ ChatStart
  /\ bodies = AllBodies
  /\ sendLimit = 1
  /\ JournalLoaded(0)
  /\ SummaryStart(0)

NextStream ==
  \/ StartJournalingClick
  \/ \E t \in OpeningTexts \cup {DefaultPromptNotOk, DefaultPromptThrown} :
        StartJournalingSettles(t)
  \/ \E text \in UserTexts : HandleSendMessage(text)
  \/ \E e \in Exchanges : ExitAnimationEnds(e)
  \/ \E e \in Exchanges, body \in bodies : StreamOpens(e, body)
  \/ \E e \in Exchanges, thrown \in BOOLEAN : StreamFailsOutright(e, thrown)
  \/ \E e \in Exchanges, k \in 1..(5 * MaxLines) : ReadChunk(e, k)
  \/ \E e \in Exchanges : ReadDone(e)
  \/ \E e \in Exchanges : ReadFails(e)
  \/ StreamingOffTimerFires
  \/ \E e \in Exchanges, r \in ReplyTexts : FallbackOk(e, r)
  \/ \E e \in Exchanges : FallbackFails(e)
  \/ \E e \in Exchanges : AppendTimerFires(e)
  \/ \E e \in Exchanges : HandlerFinally(e)

SpecStream == InitStream /\ [][NextStream]_vars

\* --- the entry list
InitJournal ==
  /\ ChatStart
  /\ bodies = FewBodies
  /\ sendLimit = MaxSends
  /\ \E n \in ServerCounts : JournalStart(n) /\ SummaryStart(n)

NextJournal ==
  \/ \E o \in {"ok", "notOk", "throws"} : InitialCountSettles(o)
  \/ \E o \in {"ok", "notOk", "throws"} : InitialPageSettles(o)
  \/ \E o \in {"ok", "notOk"} : InitialRestSettles(o)
  \/ LoadMoreJournal
  \/ \E c \in CallsOf("more"), rejected \in BOOLEAN : LoadMoreTokenSettles(c, rejected)
  \/ \E c \in CallsOf("more"), ok \in BOOLEAN : LoadMoreSettles(c, ok)
  \/ CreateJournalEntry
  \/ \E c \in CallsOf("create"), ok \in BOOLEAN : CreateSettles(c, ok)
  \/ \E id \in TouchedIds : SelectEntry(id)
  \/ ClearSelection
  \/ \E id \in TouchedIds : DeleteJournalEntry(id)
  \/ \E c \in CallsOf("delete"), ok \in BOOLEAN : DeleteSettles(c, ok)

SpecJournal == InitJournal /\ [][NextJournal]_vars

\* --- the summaries of the entry list
InitSummary ==
  /\ ChatStart
  /\ bodies = FewBodies
  /\ sendLimit = MaxSends
  /\ \E n \in SummaryEntryCounts : JournalLoaded(n) /\ SummaryStart(n)

NextSummary ==
  \/ RenderEntryList
  \/ \E t \in BagToSet(timers) : TimerFires(t)
  \/ \E v \in BagToSet(invs), rejected \in BOOLEAN : BatchTokenSettles(v, rejected)
  \/ \E v \in BagToSet(invs), id \in Ids(visibleIds), reply \in SummaryReplies :
        SummaryFetchSettles(v, id, reply.outcome, reply.raw)

SpecSummary == InitSummary /\ [][NextSummary]_vars

\* --- renames and content updates on a loaded list
UpdateStart(n) ==
  /\ journal = [i \in 1..n |-> Entry(n + 1 - i, "t0", "c0")]
  /\ journalTotal = n
  /\ journalPage = 1
  /\ initialLoaded = TRUE
  /\ selectedEntry = 0
  /\ server = journal
  /\ nextId = n + 1
  /\ loadPc = "done"
  /\ calls = EmptyCalls
  /\ nCreates = 0
  /\ nDeletes = 0
  /\ lastMore = "none"
  /\ moreLens = <<>>
  /\ overlapped = FALSE

InitUpdate ==
  /\ ChatStart
  /\ bodies = FewBodies
  /\ sendLimit = MaxSends
  /\ UpdateStart(UpdateListLen)
  /\ SummaryStart(UpdateListLen)

NextUpdate ==
  \/ \E id \in 1..UpdateListLen, updates \in Updates :
        UpdateJournalEntry(id, updates)
  \/ \E c \in CallsOf("update"), ok \in BOOLEAN : UpdateSettles(c, ok)

SpecUpdate == InitUpdate /\ [][NextUpdate]_vars

\* --- the insights views: dashboard and entry panel
InitInsights ==
  /\ ChatStart
  /\ bodies = FewBodies
  /\ sendLimit = MaxSends
  /\ JournalLoaded(PanelEntries)
  /\ SummaryStart(PanelEntries)

NextInsights ==
  \/ \E hasSession \in BOOLEAN : FetchDashboardData(hasSession)
  \/ \E rejected \in BOOLEAN : DashTokenSettles(rejected)
  \/ \E reply \in DashReplies : DashFetchSettles(reply)
  \/ \E k \in 1..MaxDashFetches : DashTimerFires(k)
  \/ \E id \in 1..PanelEntries : PanelEntryChanges(id)
  \/ PanelTryAgain
  \/ PanelBack
  \/ \E c \in panel.running : PanelTokenSettles(c)
  \/ \E c \in panel.running, ok \in BOOLEAN : PanelFetchSettles(c, ok)

SpecInsights == InitInsights /\ [][NextInsights]_vars

\* --- the insights views where every token fetch settles, every 60 s timer
\* fires unless cleared, and every request of the panel settles
SpecInsightsFair ==
  /\ SpecInsights
  /\ WF_vars(\E rejected \in BOOLEAN : DashTokenSettles(rejected))
  /\ WF_vars(\E k \in 1..MaxDashFetches : DashTimerFires(k))
  /\ \A k \in 1..MaxPanelFetches :
       /\ WF_vars(\E c \in panel.running : c.k = k /\ PanelTokenSettles(c))
       /\ WF_vars(\E c \in panel.running, ok \in BOOLEAN :
                    c.k = k /\ PanelFetchSettles(c, ok))

\* --- a conversation during which userId changes
InitUser ==
  /\ ChatStart
  /\ bodies = FewBodies
  /\ sendLimit = 1
  /\ JournalStart(NextUserEntries)
  /\ SummaryStart(NextUserEntries)

NextUser ==
  \/ UserIdChanges
  \/ \E o \in {"ok", "notOk", "throws"} : InitialCountSettles(o)
  \/ \E o \in {"ok", "notOk", "throws"} : InitialPageSettles(o)
  \/ \E o \in {"ok", "notOk"} : InitialRestSettles(o)
  \/ StartJournalingClick
  \/ \E t \in OpeningTexts : StartJournalingSettles(t)
  \/ \E text \in UserTexts : HandleSendMessage(text)
  \/ \E e \in Exchanges : ExitAnimationEnds(e)
  \/ \E e \in Exchanges, body \in bodies : StreamOpens(e, body)
  \/ \E e \in Exchanges, thrown \in BOOLEAN : StreamFailsOutright(e, thrown)
  \/ \E e \in Exchanges, k \in 1..(5 * MaxLines) : ReadChunk(e, k)
  \/ \E e \in Exchanges : ReadDone(e)
  \/ \E e \in Exchanges : ReadFails(e)
  \/ StreamingOffTimerFires
  \/ \E e \in Exchanges, r \in ReplyTexts : FallbackOk(e, r)
  \/ \E e \in Exchanges : FallbackFails(e)
  \/ \E e \in Exchanges : AppendTimerFires(e)
  \/ \E e \in Exchanges : HandlerFinally(e)

SpecUser == InitUser /\ [][NextUser]_vars

\* --- journaling sessions in the full-screen editor
InitEditor ==
  /\ ChatStart
  /\ bodies = FewBodies
  /\ sendLimit = MaxSends
  /\ JournalLoaded(0)
  /\ SummaryStart(0)

NextEditor ==
  \/ EditorStartJournaling
  \/ EditorPromptSettles
  \/ \E text \in EditorTexts : EditorType(text)
  \/ HandleContinueWriting
  \/ \E c \in editor.ops, ok \in BOOLEAN : GuideChatSettles(c, ok)
  \/ \E c \in editor.ops, ok \in BOOLEAN : GuideSaveSettles(c, ok)
  \/ FinishJournaling
  \/ \E c \in editor.ops, ok \in BOOLEAN : FinishSaveSettles(c, ok)

SpecEditor == InitEditor /\ [][NextEditor]_vars

\* --- the guided tour on the main page
NextTour ==
  \/ StartTour
  \/ TourNext
  \/ TourPrevious
  \/ TourClose
  \/ TourSelectEntry
  \/ TourEntryBack
  \/ TourSearch
  \/ EditorStartJournaling
  \/ EditorPromptSettles
  \/ FinishJournaling

SpecTour == InitEditor /\ [][NextTour]_vars

\* ===================================================================== claims
Settled(e) == xs[e].pc = "done"
Senders(msgs) == [i \in 1..Len(msgs) |-> msgs[i].sender]

\* the exchanges other than e that have a request or a stream outstanding
BusyElsewhere(e) ==
  \/ \E o \in Exchanges \ {e} : xs[o].pc \in {"stream", "reading", "fallback"}
  \/ sj.pc = "fetch"

\* C1: when an invocation of sendMessage and its timers have completed, it has
\* appended exactly one user message followed by exactly one AI message,
\* whatever the outcome.
C1_OneUserOneAiMessage ==
  \A e \in Exchanges : Settled(e) => Senders(xs[e].appended) = <<"user", "ai">>

\* what the lines of a body carry: the content of the valid fragments in order
ExpectedText(body) == Flatten([i \in 1..Len(body) |-> LineContent(body[i])])

HistoryText(id) ==
  {conversationHistory[i].text :
     i \in {j \in 1..Len(conversationHistory) : conversationHistory[j].id = id}}

\* C2: at stream end the text of the AI message, in the current message and
\* in its history record, is the concatenation of the valid fragments'
\* content in arrival order, however the body was cut into chunks.
C2_StreamTextIsConcatenation ==
  \A e \in Exchanges :
    (Settled(e) /\ xs[e].path = "streamed") =>
       /\ HistoryText(<<e, "a">>) = {ExpectedText(xs[e].body)}
       /\ currentMessage.id = <<e, "a">> => currentMessage.text = ExpectedText(xs[e].body)

\* C3: no entry id ever has two summary requests outstanding.
C3_NoDuplicateSummaryRequest ==
  \A id \in DOMAIN entrySummaryLoading : Outstanding(id) <= 1

\* C4: at most one AI message is receiving stream chunks at any time.
C4_OneMessageInFlight ==
  Cardinality({e \in Exchanges : xs[e].pc = "reading"}) <= 1

\* C5: once page * PAGE_SIZE >= journalTotal an invocation of loadMoreJournal
\* starts no token fetch and no request and leaves list and page unchanged.
C5_LoadMoreIdempotentAtEnd ==
  [][(LoadMoreJournal /\ journalPage * PAGE_SIZE >= journalTotal)
       => UNCHANGED <<journal, journalPage, calls>>]_vars

C5_Witness ==
  /\ lastMore = "noop"
  /\ journalTotal = 25
  /\ journalPage * PAGE_SIZE >= journalTotal
  /\ Len(journal) >= 25

\* the scenario of C6: 25 entries known, nothing created or deleted, and
\* no loadMore started before the previous load had completed
SuccessiveLoads ==
  /\ journalTotal = 25
  /\ nCreates = 0
  /\ nDeletes = 0
  /\ ~overlapped

\* C6: with page size 10 and 25 entries, successive loadMore calls that start
\* with no page loaded leave the list at lengths 10, 20 and 25, and a fourth
\* call changes nothing and sends no request.
C6_Lengths10_20_25 ==
  /\ [](SuccessiveLoads /\ journalPage = Len(moreLens)
          => /\ Len(moreLens) <= 3
             /\ moreLens = SubSeq(<<10, 20, 25>>, 1, Len(moreLens)))
  /\ [][(LoadMoreJournal /\ SuccessiveLoads /\ moreLens = <<10, 20, 25>>)
          => UNCHANGED <<journal, journalPage, calls>>]_vars

C6_Witness ==
  /\ SuccessiveLoads
  /\ moreLens = <<10, 20, 25>>
  /\ journalPage = 3
  /\ Len(journal) = 25
  /\ lastMore = "noop"
  /\ calls = EmptyCalls

\* C7: a successful delete of id clears the selection exactly when the entry
\* selected at the moment of removal is id, and otherwise leaves it alone.
C7_DeleteClearsOwnSelection ==
  [][\A c \in CallsOf("delete") :
       DeleteSettles(c, TRUE)
         => selectedEntry' = IF selectedEntry = c.arg THEN 0 ELSE selectedEntry]_vars

\* C8: after an outright failure of POST /chat/stream exactly one POST /chat
\* with the same payload is sent, and a 200 answer appends exactly one AI
\* message whose text is the response field, with isLoading and isStreaming
\* false once sendMessage has returned.
C8_BufferedFallbackSucceeds ==
  \A e \in Exchanges :
    (xs[e].path = "outright" /\ xs[e].fb = "ok") =>
       /\ xs[e].requests = <<ChatRequest("/chat/stream", xs[e].text),
                             ChatRequest("/chat", xs[e].text)>>
       /\ ~BusyElsewhere(e) => ~isLoading /\ ~isStreaming
       /\ Settled(e) =>
            /\ Senders(xs[e].appended) = <<"user", "ai">>
            /\ xs[e].appended[2].text = xs[e].resp

C8_Witness ==
  \E e \in Exchanges :
    /\ xs[e].path = "outright" /\ xs[e].fb = "ok" /\ Settled(e)
    /\ xs[e].resp \in ReplyTexts
    /\ \E i \in 1..Len(conversationHistory) :
         conversationHistory[i] = Msg("ai", xs[e].resp, <<e, "b">>)

\* C9: when the stream request fails outright and POST /chat fails too, exactly
\* one AI message with the fixed error text is appended, nothing is thrown,
\* and isLoading and isStreaming end false.
C9_BothRequestsFail ==
  \A e \in Exchanges :
    (xs[e].path = "outright" /\ xs[e].fb = "fail") =>
       /\ ~xs[e].escaped
       /\ ~BusyElsewhere(e) => ~isLoading /\ ~isStreaming
       /\ Settled(e) =>
            /\ Senders(xs[e].appended) = <<"user", "ai">>
            /\ xs[e].appended[2].text =
                 <<"Sorry, I encountered an error. Please try again.">>

C9_Witness ==
  \E e \in Exchanges :
    /\ xs[e].path = "outright" /\ xs[e].fb = "fail" /\ Settled(e)
    /\ Len(xs[e].requests) = 2
    /\ \E i \in 1..Len(conversationHistory) :
         conversationHistory[i] = Msg("ai", ErrorText, <<e, "b">>)

\* the ids all of whose merged summary fetches failed
OnlyFailed(id) == fetchLog[id] = {<<"failed">>}

C11_NoAutomaticSummaryRetry ==
  [][\A id \in DOMAIN fetchLog :
       <<"failed">> \in fetchLog[id] => Outstanding(id)' <= Outstanding(id)]_vars

\* C12: when token acquisition throws, the request is still sent (without a
\* token): a loadMoreJournal call whose getToken rejects goes on to request
\* its page.
C12_TokenFailureStillSends ==
  [][\A c \in CallsOf("more") :
       (c.st = "token" /\ LoadMoreTokenSettles(c, TRUE))
         => BagIn([c EXCEPT !.st = "fetch"], calls')]_vars

\* the summary requests that are outstanding, over all running invocations
TotalOutstanding ==
  LET RECURSIVE Sum(_)
      Sum(T) == IF T = {} THEN 0
                ELSE LET v == CHOOSE x \in T : TRUE
                     IN  CopiesIn(v, invs) * Cardinality(v.pending) + Sum(T \ {v})
  IN  Sum(BagToSet(invs))

\* C13: at most batchSize summary requests are outstanding at any time, and
\* the outstanding requests of an invocation all belong to its current batch
\* (the next batch is requested only when the previous one has settled).
C13_AtMostBatchSizeOutstanding ==
  /\ TotalOutstanding <= batchSize
  /\ \A v \in BagToSet(invs) : v.pending \subseteq Ids(Batch(v.toLoad, v.at))

\* the invocation v of loadEntrySummariesBatch returns in this step
Finishes(v) ==
  /\ BagIn(v, invs)
  /\ CopiesIn(v, invs') = CopiesIn(v, invs) - 1
  /\ BagSize(invs') = BagSize(invs) - 1

Marked(id) == entrySummaryLoading[id] \/ id \in batchLoadingEntries

\* C14: when an invocation of loadEntrySummariesBatch finishes, every id it
\* marked is out of batchLoadingEntries and has entrySummaryLoading false,
\* whatever its fetches and its token fetch did; and no id stays marked
\* without a running invocation that marked it and will clear it.
C14_MarksCleared ==
  /\ [][\A v \in BagToSet(invs) :
          Finishes(v) => \A id \in Ids(v.toLoad) : ~Marked(id)']_vars
  /\ [](\A id \in DOMAIN entrySummaryLoading :
          Marked(id) => \E v \in BagToSet(invs) : id \in Ids(v.toLoad))

\* the invocations have finished, one with failed fetches, and nothing is
\* left marked
C14_Witness ==
  /\ \E id \in DOMAIN fetchLog : OnlyFailed(id)
  /\ invs = EmptyBag
  /\ timers = EmptyBag
  /\ \A id \in DOMAIN entrySummaryLoading : ~Marked(id)
  /\ entrySummaries # NoSummaries

\* C15: calling createJournalEntry leaves the list as it is; the entry enters
\* the list when POST /journal has answered with a success status, as the
\* head of the list, in front of the entries that were there; a failed
\* request leaves the list unchanged.
C15_CreateShownAfterAck ==
  /\ [][CreateJournalEntry => journal' = journal]_vars
  /\ [][\A c \in CallsOf("create") :
          /\ CreateSettles(c, TRUE) =>
               /\ Head(journal') = Head(server')
               /\ Head(journal') \notin Ids(journal)
               /\ Tail(journal') = journal
          /\ CreateSettles(c, FALSE) => journal' = journal]_vars

C15_Witness ==
  /\ nCreates = 1
  /\ nDeletes = 0
  /\ CallsOf("create") = {}
  /\ journalTotal = 3
  /\ Len(journal) = 4
  /\ Head(journal) = nextId - 1
  /\ Head(journal) = Head(server)

\* the exchange has entered Streaming: its AI placeholder has been appended
EnteredStreaming(e) ==
  \E i \in 1..Len(xs[e].appended) : xs[e].appended[i].id = <<e, "a">>

\* C16: the buffered POST /chat is sent only when the stream request failed
\* outright; an exchange that has entered Streaming never sends it.
C16_NoFallbackAfterStreaming ==
  \A e \in Exchanges :
    EnteredStreaming(e) =>
      \A i \in 1..Len(xs[e].requests) : xs[e].requests[i].url # "/chat"

\* the lines of a body that come before its first termination payload
RECURSIVE BeforeDone(_)
BeforeDone(body) ==
  IF body = <<>> \/ Head(body) = DoneLine THEN <<>>
  ELSE <<Head(body)>> \o BeforeDone(Tail(body))

\* s can be obtained from t by leaving characters out
RECURSIVE IsSubsequence(_, _)
IsSubsequence(s, t) ==
  IF s = <<>> THEN TRUE
  ELSE IF t = <<>> THEN FALSE
  ELSE IF Head(s) = Head(t) THEN IsSubsequence(Tail(s), Tail(t))
  ELSE IsSubsequence(s, Tail(t))

\* C17: the termination payload ends the stream: the text of a streamed
\* message holds nothing but content of fragments that came before the
\* termination payload.
C17_DoneEndsStream ==
  \A e \in Exchanges :
    xs[e].path = "streamed" =>
      IsSubsequence(xs[e].fullText, ExpectedText(BeforeDone(xs[e].body)))

IsPrefix(s, t) == Len(s) <= Len(t) /\ SubSeq(t, 1, Len(s)) = s

\* how the text of the AI message of exchange e may go from old to new in one
\* step: extended while its stream is being read, unchanged afterwards
TextStep(e, old, new) ==
  IF xs[e].pc = "reading" THEN IsPrefix(old, new) ELSE new = old

\* C18: while an AI message is streaming every new value of its text, in the
\* current message and in the history, extends the previous one, and once
\* its stream has ended the text does not change any more.
C18_AppendOnlyThenFrozen ==
  [][\A e \in Exchanges :
       /\ (currentMessage.id = <<e, "a">> /\ currentMessage'.id = <<e, "a">>)
            => TextStep(e, currentMessage.text, currentMessage'.text)
       /\ \A i \in 1..Len(conversationHistory) :
            (/\ conversationHistory[i].id = <<e, "a">>
             /\ i <= Len(conversationHistory')
             /\ conversationHistory'[i].id = <<e, "a">>)
              => TextStep(e, conversationHistory[i].text,
                          conversationHistory'[i].text)]_vars

\* the first page came from the initial load and every loadMore since then
\* was started with no other load outstanding
LoadedInTurn == ~overlapped /\ journalPage = Len(moreLens) + 1

\* C19: the local list is a prefix of the server's newest-first list of the
\* user's entries: the same entries in the same order, without gaps (stated
\* for the runs in which the loads followed one another).
C19_ListIsPrefixOfServer == LoadedInTurn => IsPrefix(journal, server)

IdsInOrder(list) == [i \in 1..Len(list) |-> list[i].id]

\* the call c has returned the value r
Returned(c, r) == BagIn([c EXCEPT !.st = "returned", !.sel = r], calls')

\* C20: a successful rename or updateContent puts the server's returned
\* record in the place of the record with the same id and leaves length,
\* order and every other record as they were, returning true; a failed
\* update leaves the list unchanged and returns false.
C20_UpdateReplacesInPlace ==
  [][\A c \in CallsOf("update") :
       /\ UpdateSettles(c, TRUE) =>
            /\ Len(journal') = Len(journal)
            /\ IdsInOrder(journal') = IdsInOrder(journal)
            /\ \A i \in 1..Len(journal) :
                 journal'[i] = IF journal[i].id = c.arg.id
                               THEN RecordOf(server', c.arg.id)
                               ELSE journal[i]
            /\ Returned(c, "true")
       /\ UpdateSettles(c, FALSE) =>
            /\ journal' = journal
            /\ Returned(c, "false")]_vars

C20_Witness ==
  \E c, d \in CallsOf("update") :
    /\ c.st = "returned" /\ c.sel = "true" /\ c.arg.updates.title = "t1"
    /\ d.st = "returned" /\ d.sel = "false" /\ d.arg.id # c.arg.id
    /\ RecordOf(journal, c.arg.id) = Entry(c.arg.id, "t1", "c0")
    /\ RecordOf(journal, d.arg.id) = Entry(d.arg.id, "t0", "c0")
    /\ Len(journal) = UpdateListLen

\* C21: fetchDashboardData maps each outcome to one state: success stores the
\* data with no error; a non-success status sets an error with the status
\* code and the body text; the abort of the 60 s timer sets the 'Request
\* timed out' message; any other failure sets the generic message.
C21_DashboardOutcomes ==
  dash.pc = "idle" =>
    CASE dash.last.kind = "ok" ->
           /\ dash.dashboardData = dash.last.body
           /\ dash.error = Null
      [] dash.last.kind = "notOk" ->
           dash.error = <<"Failed to load insights dashboard: ",
                          dash.last.status, " - ">> \o dash.last.body
      [] dash.last.kind = "timeout" ->
           dash.error =
             <<"Request timed out. The analysis is taking longer than expected. Please try again.">>
      [] OTHER ->
           dash.error = <<"Failed to load insights dashboard. Please try again.">>

\* a second attempt has run into the timeout after a first one had failed
C21_Witness ==
  /\ dash.pc = "idle"
  /\ dash.n = 2
  /\ dash.last.kind = "timeout"
  /\ dash.error = DashTimedOutText
  /\ ~dash.isLoading

DashRunning == dash.pc \in {"token", "fetch"}
PanelRunning(k) == \E c \in panel.running : c.k = k

\* C22: every fetchDashboardData and fetchInsights invocation ends, and ends
\* with its loading flag set to false, whatever the outcome; a failure
\* leaves a non-null error, and the next invocation (Try Again) starts by
\* clearing it.
C22_LoadingEndsErrorCleared ==
  /\ [][/\ (DashRunning /\ ~DashRunning') =>
             /\ ~dash'.isLoading
             /\ dash'.last.kind # "ok" => dash'.error # Null
        /\ dash'.n # dash.n => dash'.error = Null /\ DashRunning'
        /\ \A c \in panel.running :
             (c.st = "fetch" /\ c \notin panel'.running /\ panel'.entryId # 0)
               => ~panel'.isLoading
        /\ panel'.n # panel.n =>
             /\ panel'.error = Null
             /\ \E c \in panel'.running : c.k = panel'.n]_vars
  /\ [](panel.failed => panel.error # Null)
  /\ [](dash.pc = "idle" /\ dash.last.kind # "ok" => dash.error # Null)
  /\ DashRunning ~> (~DashRunning /\ ~dash.isLoading)
  /\ \A k \in 1..MaxPanelFetches : PanelRunning(k) ~> ~PanelRunning(k)

\* a panel fetch has failed and Try Again has started the next one, while
\* the dashboard has failed as well
C22_Witness ==
  /\ panel.n = 2
  /\ panel.isLoading
  /\ panel.error = Null
  /\ PanelRunning(2)
  /\ ~PanelRunning(1)
  /\ dash.pc = "idle"
  /\ dash.last.kind = "network"
  /\ dash.error # Null
  /\ ~dash.isLoading

\* the requests a running loadEntrySummariesBatch has sent so far: those of
\* the batches up to the one at v.at
RequestsSent(v) ==
  IF v.st = "batch" THEN Min(Len(v.toLoad), v.at + batchSize) ELSE 0

\* C23: each outbound request obtains its own bearer token: the token one
\* getToken call returned is sent with at most one request.
C23_TokenPerRequest ==
  \A v \in BagToSet(invs) : v.tok = "token" => RequestsSent(v) <= 1

NoDuplicates(list) ==
  \A i, j \in 1..Len(list) : list[i] = list[j] => i = j

\* C24: the local journal list never holds two entries with the same id
\* (stated for the runs in which the loads followed one another, which are
\* among the interleavings the claim covers).
C24_NoDuplicateIds == LoadedInTurn => NoDuplicates(journal)

\* C26: the AI message of an exchange is in the history before the loading
\* flags are cleared: while the message of the buffered path still waits for
\* its 300 ms timer, isLoading or isStreaming is true.
C26_MessageBeforeFlagsClear ==
  \A e \in Exchanges : xs[e].pc = "timer" => (isLoading \/ isStreaming)

\* C27: the insights the panel holds are those of its current entryId: the
\* response of a fetch started for a previous entryId is never stored.
C27_InsightsOfCurrentEntry ==
  panel.insights # Null => panel.insights = InsightsOf(panel.entryId)

\* C25: after userId has changed, nothing of an exchange started under the
\* previous userId is in the conversation history (the opening prompts
\* aside, which no exchange produces).
C25_NothingOfPreviousUser ==
  user.changes > 0 =>
    \A i \in 1..Len(conversationHistory) :
      conversationHistory[i].id[2] # "o" =>
        conversationHistory[i].id[1] > user.sentBefore

\* C28: finishJournaling does not discard text that was not persisted: when
\* its save request fails, the non-blank text of the editor is still there.
C28_FinishKeepsUnsavedText ==
  [][\A c \in editor.ops :
       (FinishSaveSettles(c, FALSE) /\ ~IsBlank(editor.journalText))
         => editor'.journalText = editor.journalText]_vars

\* C29: the calls of one journaling session create at most one entry on the
\* server.
C29_OneEntryPerSession ==
  \A s \in 1..MaxSessions : editor.created[s] <= 1

\* C30: while the tour is open with a non-empty step list, the index is
\* that of one of its steps.
C30_IndexInRange ==
  (tour.open /\ tour.steps # <<>>) =>
    (0 <= tour.index /\ tour.index < Len(tour.steps))

====
